---------------------------- MODULE Spec2Model ----------------------------
(***************************************************************************)
(* Model of src/basic_info.py: the EnhancedDataMapper class (mapping        *)
(* configuration compiler, per-table value resolvers, value                 *)
(* transformations, record assembly) and the Streamlit handlers of main()   *)
(* that drive it.                                                           *)
(*                                                                          *)
(* Python text is a sequence of one-character strings, so that slicing,     *)
(* substring tests, lower-casing and stripping are computed, not assumed.   *)
(* A Python scalar is a record [t, s]: its type tag and its str() form.     *)
(***************************************************************************)
EXTENDS Integers, Sequences, FiniteSets, TLC

VARIABLES
    mapping_config,    \* EnhancedDataMapper.mapping_config: NoConfig or a compiled dict
    source_data,       \* EnhancedDataMapper.source_data: the loaded tables
    mapping_loaded,    \* st.session_state.mapping_loaded
    transformed_data,  \* st.session_state.transformed_data: NoFrame or a result frame
    message,           \* what the last handler reported (st.success / st.error)
    call               \* the last direct method call and its outcome

vars == <<mapping_config, source_data, mapping_loaded, transformed_data, message, call>>

----------------------------------------------------------------------------
(* Bounds of the model *)

\* longest mapping table that is uploaded
MaxMappingRows == 2
\* longest primary (PA0002) table
MaxPrimaryRows == 2
\* longest satellite (PA0105, PA0006) table
MaxSatelliteRows == 2

----------------------------------------------------------------------------
(* Python text *)

Uppers == <<"A","B","C","D","E","F","G","H","I","J","K","L","M",
            "N","O","P","Q","R","S","T","U","V","W","X","Y","Z">>
Lowers == <<"a","b","c","d","e","f","g","h","i","j","k","l","m",
            "n","o","p","q","r","s","t","u","v","w","x","y","z">>
Digits == {"0","1","2","3","4","5","6","7","8","9"}
Whitespace == {" "}

\* str.lower(), one character
LowerChar(c) ==
    IF \E i \in 1..Len(Uppers) : Uppers[i] = c
    THEN Lowers[CHOOSE i \in 1..Len(Uppers) : Uppers[i] = c]
    ELSE c

\* str.upper(), one character
UpperChar(c) ==
    IF \E i \in 1..Len(Lowers) : Lowers[i] = c
    THEN Uppers[CHOOSE i \in 1..Len(Lowers) : Lowers[i] = c]
    ELSE c

\* s.lower()
Lower(s) == [i \in 1..Len(s) |-> LowerChar(s[i])]

\* s.upper()
Upper(s) == [i \in 1..Len(s) |-> UpperChar(s[i])]

\* sub in s
Contains(sub, s) ==
    \E i \in 0..(Len(s) - Len(sub)) : SubSeq(s, i + 1, i + Len(sub)) = sub

\* s.isdigit() (ASCII digits)
IsDigit(s) == Len(s) > 0 /\ \A i \in 1..Len(s) : s[i] \in Digits

\* s.strip()
Strip(s) ==
    LET keep == {i \in 1..Len(s) : s[i] \notin Whitespace}
    IN  IF keep = {} THEN <<>>
        ELSE LET lo == CHOOSE i \in keep : \A j \in keep : i <= j
                 hi == CHOOSE i \in keep : \A j \in keep : j <= i
             IN  SubSeq(s, lo, hi)

----------------------------------------------------------------------------
(* Python scalars: a cell of a DataFrame, a value of a rule, a result *)

Text(s) == [t |-> "str", s |-> s]
Num(s)  == [t |-> "int", s |-> s]
NaN     == [t |-> "nan", s |-> <<"n","a","n">>]
None    == [t |-> "none", s |-> <<"N","o","n","e">>]
Empty   == Text(<<>>)

\* str(v)
Str(v) == v.s

\* pd.isna(v)
IsNa(v) == v.t \in {"nan", "none"}

\* bool(v)
Truthy(v) ==
    CASE v.t = "str"  -> v.s # <<>>
      [] v.t = "int"  -> \E i \in 1..Len(v.s) : v.s[i] \notin {"0", "-"}
      [] v.t = "float" -> \E i \in 1..Len(v.s) : v.s[i] \notin {"0", "-", "."}
      [] v.t = "nan"  -> TRUE
      [] v.t = "none" -> FALSE

\* the outcome of a call: a returned value or a raised exception
Return(v) == [kind |-> "return", val |-> v, exc |-> "", arg |-> ""]
Raise(e, a) == [kind |-> "raise", val |-> None, exc |-> e, arg |-> a]
Raised(o) == o.kind = "raise"

----------------------------------------------------------------------------
(* Names the code spells out: table names, column names, keywords *)

PA0002 == <<"P","A","0","0","0","2">>
PA0105 == <<"P","A","0","1","0","5">>
PA0006 == <<"P","A","0","0","0","6">>
PA0001 == <<"P","A","0","0","0","1">>
PA0000 == <<"P","A","0","0","0","0">>
Custom == <<"C","u","s","t","o","m">>
PA0002_Personal_Data == <<"P","A","0","0","0","2","_","P","e","r","s","o","n","a","l"," ","D","a","t","a">>
PA0105_Communication == <<"P","A","0","1","0","5","_","C","o","m","m","u","n","i","c","a","t","i","o","n">>
PA0006_Home_Address == <<"P","A","0","0","0","6","_","H","o","m","e","_","A","d","d","r","e","s","s">>
PERNR == <<"P","E","R","N","R">>
SUBTY == <<"S","U","B","T","Y">>
COMM_TYPE == <<"C","O","M","M","_","T","Y","P","E">>
USRID_LONG == <<"U","S","R","I","D","_","L","O","N","G">>
USRID == <<"U","S","R","I","D">>
VORNA == <<"V","O","R","N","A">>
NACHN == <<"N","A","C","H","N">>
GESCH == <<"G","E","S","C","H">>
GBDAT == <<"G","B","D","A","T">>
BEGDA == <<"B","E","G","D","A">>
FAMST == <<"F","A","M","S","T">>
EMAIL == <<"E","M","A","I","L">>
PHONE == <<"P","H","O","N","E">>
LOGIN == <<"L","O","G","I","N">>
kw_email == <<"e","m","a","i","l">>
kw_phone == <<"p","h","o","n","e">>
kw_SUBTY_0010 == <<"S","U","B","T","Y","=","0","0","1","0">>
kw_SUBTY_0020 == <<"S","U","B","T","Y","=","0","0","2","0">>
kw_gender == <<"g","e","n","d","e","r">>
kw_date == <<"d","a","t","e">>
kw_marital == <<"m","a","r","i","t","a","l">>
kw_concatenate == <<"c","o","n","c","a","t","e","n","a","t","e"," ","V","O","R","N","A"," ","+"," ","N","A","C","H","N">>
kw_login_username == <<"l","o","g","i","n"," ","u","s","e","r","n","a","m","e">>

----------------------------------------------------------------------------
(* DataFrames: [cols |-> set of column names, rows |-> sequence of rows],  *)
(* a row being a function from the column names to scalars.                *)

\* the float a whole number becomes in a float64 column
AsFloat(v) == [t |-> "float", s |-> v.s \o <<".","0">>]

\* pd.read_excel's column types: a column of whole numbers and empty cells is
\* float64, so its whole numbers read back as floats
DataFrame(cols, rows) ==
    LET cells(c) == {rows[i][c] : i \in 1..Len(rows)}
        float64(c) == NaN \in cells(c) /\ \A v \in cells(c) : v.t \in {"int", "nan"}
    IN  [cols |-> cols,
         rows |-> [i \in 1..Len(rows) |->
                     [c \in cols |-> IF float64(c) /\ rows[i][c].t = "int"
                                     THEN AsFloat(rows[i][c])
                                     ELSE rows[i][c]]]]

\* series.get(key, default) with a text key
SeriesGet(row, key, default) == IF key \in DOMAIN row THEN row[key] ELSE default

\* series.get(key, default) with a key held in a scalar
SeriesGetValue(row, key, default) ==
    IF key.t = "str" THEN SeriesGet(row, key.s, default) ELSE default

\* cell == n, for a whole number n given by its digits
EqNumber(cell, digits) ==
    \/ cell.t = "int" /\ cell.s = digits
    \/ cell.t = "float" /\ cell.s = digits \o <<".","0">>

\* df[df['PERNR'].astype(str) == str(person_id)]
RowsOfPerson(df, person_id) ==
    SelectSeq(df.rows, LAMBDA r : Str(r[PERNR]) = Str(person_id))

----------------------------------------------------------------------------
(* EnhancedDataMapper: value transformations *)

Male == <<"M","a","l","e">>
Female == <<"F","e","m","a","l","e">>

gender_map ==
    (<<"1">> :> Text(Male)) @@ (<<"2">> :> Text(Female)) @@
    (<<"M">> :> Text(Male)) @@ (<<"F">> :> Text(Female))

marital_map ==
    (<<"0">> :> Text(<<"S","i","n","g","l","e">>)) @@
    (<<"1">> :> Text(<<"M","a","r","r","i","e","d">>)) @@
    (<<"2">> :> Text(<<"D","i","v","o","r","c","e","d">>)) @@
    (<<"3">> :> Text(<<"W","i","d","o","w","e","d">>)) @@
    (<<"4">> :> Text(<<"S","e","p","a","r","a","t","e","d">>))

\* map.get(key, default)
DictGet(map, key, default) == IF key \in DOMAIN map THEN map[key] ELSE default

\* _format_date with the bug that any 8-character text is sliced
FormatDateAnyEightChars(date_value) ==
    IF IsNa(date_value) THEN None
    ELSE LET date_str == Str(date_value)
         IN  IF Len(date_str) = 8
             THEN Text(SubSeq(date_str, 1, 4) \o <<"-">> \o SubSeq(date_str, 5, 6)
                       \o <<"-">> \o SubSeq(date_str, 7, 8))
             ELSE Text(date_str)

_format_date(date_value) ==
    IF IsNa(date_value) THEN None
    ELSE LET date_str == Str(date_value)
         IN  IF Len(date_str) = 8 /\ IsDigit(date_str)
             THEN Text(SubSeq(date_str, 1, 4) \o <<"-">> \o SubSeq(date_str, 5, 6)
                       \o <<"-">> \o SubSeq(date_str, 7, 8))
             ELSE Text(date_str)

\* the 'login username' branch: the LOGIN row of the person in PA0105
LoginUsername(value, person_row) ==
    IF PA0105_Communication \notin DOMAIN source_data THEN Return(value)
    ELSE LET comm_df == source_data[PA0105_Communication]
             person_id == SeriesGet(person_row, PERNR, Empty)
         IN  IF PERNR \notin comm_df.cols THEN Raise("KeyError", "PERNR")
             ELSE IF COMM_TYPE \notin comm_df.cols THEN Raise("KeyError", "COMM_TYPE")
             ELSE LET login_data ==
                          SelectSeq(comm_df.rows,
                                    LAMBDA r : /\ Str(r[PERNR]) = Str(person_id)
                                               /\ r[COMM_TYPE] = Text(LOGIN))
                  IN  IF login_data # <<>>
                      THEN Return(SeriesGet(login_data[1], USRID, value))
                      ELSE Return(value)

_apply_transformations(value, field_name, notes, person_row) ==
    IF IsNa(value) \/ value = Empty THEN Return(None)
    ELSE IF field_name.t # "str" THEN Raise("AttributeError", "lower")
    ELSE IF Contains(kw_gender, Lower(field_name.s)) \/ Contains(GESCH, field_name.s)
         THEN Return(DictGet(gender_map, Str(value), value))
    ELSE IF notes.t # "str" THEN Raise("AttributeError", "lower")
    ELSE IF \/ Contains(kw_date, Lower(notes.s))
            \/ Contains(GBDAT, field_name.s)
            \/ Contains(BEGDA, field_name.s)
         THEN Return(_format_date(value))
    ELSE IF Contains(kw_marital, Lower(notes.s)) \/ Contains(FAMST, field_name.s)
         THEN Return(DictGet(marital_map, Str(value), value))
    ELSE IF Contains(kw_concatenate, notes.s)
         THEN LET first_name == SeriesGet(person_row, VORNA, Empty)
                  last_name == SeriesGet(person_row, NACHN, Empty)
              IN  Return(Text(Strip(Str(first_name) \o <<" ">> \o Str(last_name))))
    ELSE IF Contains(kw_login_username, Lower(notes.s))
         THEN LoginUsername(value, person_row)
    ELSE Return(value)

----------------------------------------------------------------------------
(* EnhancedDataMapper: the per-table resolvers *)

_get_pa0002_value(person_id, technical_field, source_field, notes, default_value) ==
    IF PA0002_Personal_Data \notin DOMAIN source_data THEN Return(default_value)
    ELSE LET df == source_data[PA0002_Personal_Data]
         IN  IF PERNR \notin df.cols THEN Raise("KeyError", "PERNR")
             ELSE LET person_rows == RowsOfPerson(df, person_id)
                  IN  IF person_rows = <<>> THEN Return(default_value)
                      ELSE LET person_row == person_rows[1]
                               raw_value == SeriesGetValue(person_row, technical_field,
                                                           default_value)
                           IN  _apply_transformations(raw_value, technical_field,
                                                      notes, person_row)

\* person_data[(person_data['COMM_TYPE'] == comm_type) | (person_data['SUBTY'] == subty)]
CommRows(person_data, comm_type, subty) ==
    SelectSeq(person_data,
              LAMBDA r : r[COMM_TYPE] = Text(comm_type) \/ EqNumber(r[SUBTY], subty))

\* one branch of _get_pa0105_value: the first row of the communication type
CommValue(df, person_data, comm_type, subty, default_value) ==
    IF COMM_TYPE \notin df.cols THEN Raise("KeyError", "COMM_TYPE")
    ELSE IF SUBTY \notin df.cols THEN Raise("KeyError", "SUBTY")
    ELSE LET found == CommRows(person_data, comm_type, subty)
         IN  IF found # <<>>
             THEN Return(SeriesGet(found[1], USRID_LONG, default_value))
             ELSE Return(default_value)

\* _get_pa0105_value with the bug that a person without rows gets None for an
\* empty default, as the fall-through of _get_value_from_source does
GetPa0105ValueNoneForMissing(person_id, technical_field, source_field, notes, default_value) ==
    IF PA0105_Communication \notin DOMAIN source_data THEN Return(default_value)
    ELSE LET df == source_data[PA0105_Communication]
         IN  IF PERNR \notin df.cols THEN Raise("KeyError", "PERNR")
             ELSE LET person_data == RowsOfPerson(df, person_id)
                  IN  IF person_data = <<>>
                      THEN Return(IF Truthy(default_value) THEN default_value ELSE None)
                      ELSE IF notes.t # "str" THEN Raise("AttributeError", "lower")
                      ELSE IF \/ Contains(kw_email, Lower(notes.s))
                              \/ Contains(kw_SUBTY_0010, notes.s)
                           THEN CommValue(df, person_data, EMAIL, <<"1","0">>,
                                          default_value)
                      ELSE IF \/ Contains(kw_phone, Lower(notes.s))
                              \/ Contains(kw_SUBTY_0020, notes.s)
                           THEN CommValue(df, person_data, PHONE, <<"2","0">>,
                                          default_value)
                      ELSE Return(default_value)

_get_pa0105_value(person_id, technical_field, source_field, notes, default_value) ==
    IF PA0105_Communication \notin DOMAIN source_data THEN Return(default_value)
    ELSE LET df == source_data[PA0105_Communication]
         IN  IF PERNR \notin df.cols THEN Raise("KeyError", "PERNR")
             ELSE LET person_data == RowsOfPerson(df, person_id)
                  IN  IF person_data = <<>> THEN Return(default_value)
                      ELSE IF notes.t # "str" THEN Raise("AttributeError", "lower")
                      ELSE IF \/ Contains(kw_email, Lower(notes.s))
                              \/ Contains(kw_SUBTY_0010, notes.s)
                           THEN CommValue(df, person_data, EMAIL, <<"1","0">>,
                                          default_value)
                      ELSE IF \/ Contains(kw_phone, Lower(notes.s))
                              \/ Contains(kw_SUBTY_0020, notes.s)
                           THEN CommValue(df, person_data, PHONE, <<"2","0">>,
                                          default_value)
                      ELSE Return(default_value)

_get_pa0006_value(person_id, technical_field, source_field, notes, default_value) ==
    IF PA0006_Home_Address \notin DOMAIN source_data THEN Return(default_value)
    ELSE LET df == source_data[PA0006_Home_Address]
         IN  IF PERNR \notin df.cols THEN Raise("KeyError", "PERNR")
             ELSE LET person_data == RowsOfPerson(df, person_id)
                  IN  IF person_data = <<>> THEN Return(default_value)
                      ELSE IF SUBTY \notin df.cols THEN Raise("KeyError", "SUBTY")
                      ELSE LET home_address ==
                                   SelectSeq(person_data,
                                             LAMBDA r : EqNumber(r[SUBTY], <<"1">>))
                           IN  IF home_address # <<>>
                               THEN Return(SeriesGetValue(home_address[1],
                                                          technical_field, default_value))
                               ELSE Return(default_value)

_get_pa0001_value(person_id, technical_field, source_field, notes, default_value) ==
    Return(default_value)

_get_pa0000_value(person_id, technical_field, source_field, notes, default_value) ==
    Return(default_value)

_get_custom_value(person_id, technical_field, source_field, notes, default_value) ==
    IF notes.t # "str" THEN Raise("AttributeError", "lower")
    ELSE Return(default_value)

_get_value_from_source(person_id, config) ==
    LET source_table == config.source_table
        technical_field == config.technical_field
        source_field == config.source_field
        notes == config.notes
        default_value == config.default_value
    IN  IF source_table = Text(PA0002)
        THEN _get_pa0002_value(person_id, technical_field, source_field, notes, default_value)
        ELSE IF source_table = Text(PA0105)
        THEN _get_pa0105_value(person_id, technical_field, source_field, notes, default_value)
        ELSE IF source_table = Text(PA0006)
        THEN _get_pa0006_value(person_id, technical_field, source_field, notes, default_value)
        ELSE IF source_table = Text(PA0001)
        THEN _get_pa0001_value(person_id, technical_field, source_field, notes, default_value)
        ELSE IF source_table = Text(PA0000)
        THEN _get_pa0000_value(person_id, technical_field, source_field, notes, default_value)
        ELSE IF source_table = Text(Custom)
        THEN _get_custom_value(person_id, technical_field, source_field, notes, default_value)
        ELSE Return(IF Truthy(default_value) THEN default_value ELSE None)

----------------------------------------------------------------------------
(* EnhancedDataMapper: the mapping configuration *)

col_target == "Target Column (SuccessFactors)"
col_target_name == "Target Column Name"
col_source_table == "Source Table (ECC)"
col_source_field == "Source Field Name (ECC)"
col_technical_field == "Technical Field (ECC)"
col_notes == "Notes / Transformation"
col_default_value == "Default Value"

\* mapping_config is None
NoConfig == [none |-> TRUE, items |-> <<>>]

\* mapping_config is a dict: its items in insertion order
Config(items) == [none |-> FALSE, items |-> items]

\* the dict value load_mapping_config builds from one row
RuleOfRow(row) ==
    [target_name |-> SeriesGet(row, col_target_name, Empty),
     source_table |-> SeriesGet(row, col_source_table, Empty),
     source_field |-> SeriesGet(row, col_source_field, Empty),
     technical_field |-> SeriesGet(row, col_technical_field, Empty),
     notes |-> SeriesGet(row, col_notes, Empty),
     default_value |-> SeriesGet(row, col_default_value, Empty)]

\* DictSet with the bug that a key already present keeps its first value
DictSetKeepFirst(items, key, val) ==
    IF \E i \in 1..Len(items) : items[i].key = key
    THEN items
    ELSE Append(items, [key |-> key, val |-> val])

\* d[key] = val on a dict held as its items: a present key keeps its place
DictSet(items, key, val) ==
    IF \E i \in 1..Len(items) : items[i].key = key
    THEN [i \in 1..Len(items) |->
             IF items[i].key = key THEN [key |-> key, val |-> val] ELSE items[i]]
    ELSE Append(items, [key |-> key, val |-> val])

\* the loop of load_mapping_config from row i on: the dict and how the loop ended
RECURSIVE LoadRows(_, _, _)
LoadRows(rows, i, items) ==
    IF i > Len(rows) THEN [mapping_config |-> Config(items), out |-> Return(None)]
    ELSE LET target_field == SeriesGet(rows[i], col_target, Empty)
         IN  IF IsNa(target_field) THEN LoadRows(rows, i + 1, items)
             ELSE IF target_field.t # "str"
                  THEN [mapping_config |-> Config(items),
                        out |-> Raise("AttributeError", "strip")]
             ELSE IF Strip(target_field.s) = <<>> THEN LoadRows(rows, i + 1, items)
             ELSE LoadRows(rows, i + 1, DictSet(items, target_field, RuleOfRow(rows[i])))

\* the new mapping_config and the outcome of the call
load_mapping_config(mapping_df) == LoadRows(mapping_df.rows, 1, <<>>)

----------------------------------------------------------------------------
(* EnhancedDataMapper: record assembly *)

\* series.unique(): the distinct values in first-seen order
Unique(s) ==
    LET keep == {i \in 1..Len(s) : \A j \in 1..(i - 1) : s[j] # s[i]}
    IN  [k \in 1..Cardinality(keep) |->
            s[CHOOSE i \in keep : Cardinality({j \in keep : j < i}) = k - 1]]

\* transformed_data is None
NoFrame == [none |-> TRUE, columns |-> <<>>, rows |-> <<>>]

\* pd.DataFrame(result_rows), the rows being dicts with the same keys
ResultFrame(columns, rows) ==
    [none |-> FALSE, columns |-> IF rows = <<>> THEN <<>> ELSE columns, rows |-> rows]

msg_not_loaded == "Mapping configuration and source data must be loaded first"
msg_no_primary == "PA0002_Personal Data is required as the main data source"

transform_data ==
    IF mapping_config.none \/ mapping_config.items = <<>> \/ DOMAIN source_data = {}
    THEN Raise("ValueError", msg_not_loaded)
    ELSE IF PA0002_Personal_Data \notin DOMAIN source_data
    THEN Raise("ValueError", msg_no_primary)
    ELSE LET main_df == source_data[PA0002_Personal_Data]
         IN  IF PERNR \notin main_df.cols THEN Raise("KeyError", "PERNR")
             ELSE LET person_ids == Unique([i \in 1..Len(main_df.rows) |->
                                               Text(Str(main_df.rows[i][PERNR]))])
                      items == mapping_config.items
                      value == [i \in 1..Len(person_ids) |-> [j \in 1..Len(items) |->
                                   _get_value_from_source(person_ids[i], items[j].val)]]
                      bad == {p \in (1..Len(person_ids)) \X (1..Len(items)) :
                                 Raised(value[p[1]][p[2]])}
                      first == CHOOSE p \in bad : \A q \in bad :
                                   p[1] < q[1] \/ (p[1] = q[1] /\ p[2] <= q[2])
                      keys == {items[j].key : j \in 1..Len(items)}
                      row_data(i) == [k \in keys |->
                                        value[i][CHOOSE j \in 1..Len(items) :
                                                     items[j].key = k].val]
                  IN  IF bad # {} THEN value[first[1]][first[2]]
                      ELSE Return(ResultFrame([j \in 1..Len(items) |-> items[j].key],
                                              [i \in 1..Len(person_ids) |-> row_data(i)]))

----------------------------------------------------------------------------
(* Inputs: the uploaded tables *)

\* the sequences over S of length at most n
SeqsUpTo(S, n) == UNION {[1..k -> S] : k \in 0..n}

id_1001 == <<"1","0","0","1">>
id_1002 == <<"1","0","0","2">>
id_1003 == <<"1","0","0","3">>
STRAS == <<"S","T","R","A","S">>
NoSuchColumn == <<"Z","Z","Z","Z","Z">>

PrimaryCols == {PERNR, GESCH, GBDAT, VORNA, NACHN}

PrimaryRow(pernr, gesch, gbdat, vorna, nachn) ==
    (PERNR :> pernr) @@ (GESCH :> gesch) @@ (GBDAT :> gbdat) @@
    (VORNA :> vorna) @@ (NACHN :> nachn)

PrimaryRows ==
    { PrimaryRow(Num(id_1001), Text(<<"1">>), Text(<<"1","9","8","5","0","6","1","3">>), Text(<<"J","a","n","e">>), Text(<<"D","o","e">>)),
      PrimaryRow(Num(id_1002), Text(<<"F">>), NaN, NaN, Text(<<"R","o","e">>)),
      PrimaryRow(NaN, Empty, Empty, Empty, Empty) }

PrimaryTables ==
    {DataFrame(PrimaryCols, rows) : rows \in SeqsUpTo(PrimaryRows, MaxPrimaryRows)}

\* a PA0002 sheet that has no PERNR column
PrimaryWithoutId ==
    DataFrame({GESCH}, <<(GESCH :> Text(<<"1">>))>>)

\* the PA0002 sheet loaded beside the satellite tables
PrimaryFixed ==
    DataFrame(PrimaryCols,
              <<PrimaryRow(Num(id_1001), Text(<<"1">>), Text(<<"1","9","8","5","0","6","1","3">>), Text(<<"J","a","n","e">>), Text(<<"D","o","e">>)),
                PrimaryRow(Num(id_1002), Text(<<"F">>), NaN, NaN, Text(<<"R","o","e">>))>>)

CommCols == {PERNR, SUBTY, COMM_TYPE, USRID_LONG, USRID}

CommRow(pernr, subty, comm_type, usrid_long, usrid) ==
    (PERNR :> pernr) @@ (SUBTY :> subty) @@ (COMM_TYPE :> comm_type) @@
    (USRID_LONG :> usrid_long) @@ (USRID :> usrid)

CommunicationRows ==
    { CommRow(Num(id_1001), Num(<<"1","0">>), Text(EMAIL), Text(<<"a","@","x">>), Text(<<"j","a">>)),
      CommRow(Num(id_1001), Num(<<"2","0">>), Text(PHONE), NaN, Text(<<"j","b">>)),
      CommRow(Num(id_1001), Num(<<"2","0">>), Text(EMAIL), Text(<<"b","@","x">>), Text(<<"j","c">>)),
      CommRow(Num(id_1001), Num(<<"1","0">>), Text(EMAIL), Empty, Text(<<"j","d">>)),
      CommRow(Num(id_1002), Text(<<"0","0","1","0">>), Text(<<"M","A","I","L">>), Text(<<"c","@","x">>), Text(<<"j","e">>)) }

CommTables ==
    {DataFrame(CommCols, rows) : rows \in SeqsUpTo(CommunicationRows, MaxSatelliteRows)}

\* a PA0105 sheet as SAP exports it: no COMM_TYPE column
CommWithoutType ==
    DataFrame({PERNR, SUBTY, USRID_LONG},
              <<(PERNR :> Num(id_1001)) @@ (SUBTY :> Num(<<"1","0">>)) @@
                (USRID_LONG :> Text(<<"a","@","x">>))>>)

\* a PA0105 sheet holding a LOGIN row
CommWithLogin ==
    DataFrame(CommCols,
              <<CommRow(Num(id_1001), Num(<<"1">>), Text(LOGIN), Text(<<"l","@","x">>), Text(<<"j","d","o","e">>))>>)

AddressCols == {PERNR, SUBTY, STRAS}

AddressRow(pernr, subty, stras) ==
    (PERNR :> pernr) @@ (SUBTY :> subty) @@ (STRAS :> stras)

AddressRows ==
    { AddressRow(Num(id_1001), Num(<<"1">>), Text(<<"M","a","i","n">>)),
      AddressRow(Num(id_1001), Num(<<"2">>), Text(<<"S","i","d","e">>)),
      AddressRow(Num(id_1001), Num(<<"1">>), NaN),
      AddressRow(Num(id_1002), Num(<<"2">>), Text(<<"L","a","n","e">>)) }

AddressTables ==
    {DataFrame(AddressCols, rows) : rows \in SeqsUpTo(AddressRows, MaxSatelliteRows)}

\* the dicts load_source_data receives
PrimaryDicts ==
    {(PA0002_Personal_Data :> t) : t \in PrimaryTables \cup {PrimaryWithoutId}}

CommDicts ==
    {(PA0002_Personal_Data :> PrimaryFixed) @@ (PA0105_Communication :> t) :
        t \in CommTables \cup {CommWithoutType, CommWithLogin}}

AddressDicts ==
    {(PA0002_Personal_Data :> PrimaryFixed) @@ (PA0006_Home_Address :> t) :
        t \in AddressTables}

\* sheets uploaded without the PA0002 sheet
SatelliteOnlyDicts ==
    {(PA0105_Communication :> CommWithLogin)}

----------------------------------------------------------------------------
(* Inputs: the mapping table *)

MappingCols ==
    {col_target, col_target_name, col_source_table, col_source_field,
     col_technical_field, col_notes, col_default_value}

MappingRow(target, source_table, technical_field, notes, default_value) ==
    (col_target :> target) @@ (col_target_name :> Empty) @@
    (col_source_table :> source_table) @@ (col_source_field :> Empty) @@
    (col_technical_field :> technical_field) @@ (col_notes :> notes) @@
    (col_default_value :> default_value)

t_status == <<"s","t","a","t","u","s">>
t_email == <<"e","m","a","i","l">>
d_NA == <<"N","/","A">>

MappingRows ==
    { MappingRow(Text(t_status), Text(PA0002), Text(GESCH), Empty, Text(d_NA)),
      MappingRow(Text(t_status), Text(PA0105), Text(USRID_LONG), Text(kw_email), Empty),
      MappingRow(Text(t_email), Text(PA0105), Text(USRID_LONG), Text(kw_SUBTY_0010), NaN),
      MappingRow(NaN, Text(PA0002), Text(VORNA), Empty, Empty),
      MappingRow(Text(<<" ">>), Text(PA0002), Text(NACHN), Empty, Empty),
      MappingRow(Num(<<"7">>), Text(PA0002), Text(GBDAT), Empty, Empty) }

MappingFrames ==
    {DataFrame(MappingCols, rows) : rows \in SeqsUpTo(MappingRows, MaxMappingRows)}

----------------------------------------------------------------------------
(* main(): the Streamlit session and its handlers *)

NoMessage == [kind |-> "none", text |-> "", exc |-> "", arg |-> "", n |-> 0]

\* st.success(f"... Loaded {n} ...")
Success(text, n) == [kind |-> "success", text |-> text, exc |-> "", arg |-> "", n |-> n]

\* st.error(f"... {text}: {str(e)}")
Error(text, out) == [kind |-> "error", text |-> text, exc |-> out.exc, arg |-> out.arg, n |-> 0]

NoCall == [fn |-> "none", args |-> <<>>, done |-> FALSE, out |-> Return(None)]

Init ==
    /\ mapping_config = NoConfig
    /\ source_data = <<>>
    /\ mapping_loaded = FALSE
    /\ transformed_data = NoFrame
    /\ message = NoMessage
    /\ call = NoCall

\* the mapping file uploader: the file is loaded until one load succeeds
UploadMapping ==
    /\ ~mapping_loaded
    /\ \E mapping_df \in MappingFrames :
         LET r == load_mapping_config(mapping_df)
         IN  /\ mapping_config' = r.mapping_config
             /\ mapping_loaded' = ~Raised(r.out)
             /\ message' = IF Raised(r.out)
                           THEN Error("Error loading mapping file", r.out)
                           ELSE Success("Loaded mapping rules", Len(mapping_df.rows))
    /\ UNCHANGED <<source_data, transformed_data, call>>

\* the source file uploader: every sheet of every uploaded file becomes a table
UploadSources ==
    /\ \E data_dict \in PrimaryDicts \cup SatelliteOnlyDicts :
         /\ source_data' = data_dict
         /\ message' = Success("Loaded data tables", Cardinality(DOMAIN data_dict))
    /\ UNCHANGED <<mapping_config, mapping_loaded, transformed_data, call>>

can_transform ==
    /\ mapping_loaded
    /\ DOMAIN source_data # {}
    /\ PA0002_Personal_Data \in DOMAIN source_data

\* StartTransformation with the bug that a failed pass clears the stored result
StartTransformationClearsOnError ==
    /\ can_transform
    /\ LET r == transform_data
       IN  /\ transformed_data' = IF Raised(r) THEN NoFrame ELSE r.val
           /\ message' = IF Raised(r)
                         THEN Error("Transformation failed", r)
                         ELSE Success("Data transformation completed!", 0)
    /\ UNCHANGED <<mapping_config, source_data, mapping_loaded, call>>

\* the "Start Transformation" button
StartTransformation ==
    /\ can_transform
    /\ LET r == transform_data
       IN  /\ transformed_data' = IF Raised(r) THEN transformed_data ELSE r.val
           /\ message' = IF Raised(r)
                         THEN Error("Transformation failed", r)
                         ELSE Success("Data transformation completed!", 0)
    /\ UNCHANGED <<mapping_config, source_data, mapping_loaded, call>>

Next == UploadMapping \/ UploadSources \/ StartTransformation

Spec == Init /\ [][Next]_vars

----------------------------------------------------------------------------
(* Inputs: direct calls of the mapper's methods *)

\* the rule a mapping row compiles to
Rule(source_table, technical_field, notes, default_value) ==
    RuleOfRow(MappingRow(Text(t_status), source_table, technical_field, notes,
                         default_value))

Defaults == {Empty, Text(d_NA), NaN}

n_date == <<"D","a","t","e"," ","o","f"," ","b","i","r","t","h">>
n_Email == <<"E","m","a","i","l">>
n_SUBTY_10 == <<"S","U","B","T","Y","=","1","0">>
n_SUBTY_2 == <<"S","U","B","T","Y","=","2">>
n_gender_date == <<"g","e","n","d","e","r"," ","d","a","t","e">>
n_marital_concat == <<"m","a","r","i","t","a","l"," ","c","o","n","c","a","t","e","n","a","t","e"," ","V","O","R","N","A"," ","+"," ","N","A","C","H","N">>

PrimaryRules ==
    {Rule(Text(PA0002), f, n, d) :
        f \in {Text(GESCH), Text(GBDAT), Text(VORNA), Text(NoSuchColumn), NaN},
        n \in {Empty, Text(n_date), Text(kw_concatenate), Text(kw_login_username), NaN},
        d \in Defaults}

CommRules ==
    {Rule(Text(PA0105), Text(USRID_LONG), n, d) :
        n \in {Empty, Text(n_Email), Text(kw_SUBTY_0010), Text(kw_phone),
               Text(kw_SUBTY_0020), Text(n_SUBTY_10), NaN},
        d \in Defaults}

AddressRules ==
    {Rule(Text(PA0006), f, n, d) :
        f \in {Text(STRAS), Text(NoSuchColumn)},
        n \in {Empty, Text(n_SUBTY_2)},
        d \in Defaults}

\* rules of the tables without data, and of names _get_value_from_source does not know
OtherRules ==
    {Rule(t, Text(USRID_LONG), n, d) :
        t \in {Text(PA0001), Text(PA0000), Text(Custom), Text(PA0105_Communication),
               Text(<<"p","a","0","1","0","5">>), Text(<<"Z","T","A","B">>), NaN},
        n \in {Empty, Text(n_Email)},
        d \in Defaults}

Rules == PrimaryRules \cup CommRules \cup AddressRules \cup OtherRules

PersonIds == {Text(id_1001), Text(id_1002), Text(id_1003)}

RawValues ==
    { Text(<<"1">>), Text(<<"2">>), Text(<<"M">>), Text(<<"F">>), Text(<<"m">>), Text(<<"f">>), Text(<<"M","a","l","e">>),
      Text(<<"1","9","8","5","0","6","1","3">>), Num(<<"1","9","8","5","0","6","1","3">>), Text(<<"1","9","8","5","-","0","6","-","1","3">>), Text(<<"1","9","8","5","0","6","1">>), Text(<<"1","9","8","5","0","6","1","a">>),
      Num(<<"1">>), AsFloat(Num(<<"1">>)), Empty, NaN, None }

FieldNames == {Text(GESCH), Text(<<"G","e","n","d","e","r">>), Text(GBDAT), Text(FAMST), Text(VORNA), NaN}

NotesValues ==
    {Empty, Text(n_date), Text(kw_marital), Text(kw_concatenate), Text(n_gender_date),
     Text(n_marital_concat), NaN}

\* every mapping_config a load can leave behind
CompiledConfigs == {load_mapping_config(f).mapping_config : f \in MappingFrames}

Pending(fn, args) == [fn |-> fn, args |-> args, done |-> FALSE, out |-> Return(None)]

InitCall ==
    /\ mapping_loaded = FALSE
    /\ transformed_data = NoFrame
    /\ message = NoMessage
    /\ \/ /\ mapping_config = NoConfig
          /\ source_data = <<>>
          /\ \E f \in MappingFrames :
                call = Pending("load_mapping_config", [mapping_df |-> f])
       \/ /\ mapping_config \in CompiledConfigs \cup {NoConfig}
          /\ source_data \in PrimaryDicts \cup SatelliteOnlyDicts \cup {<<>>}
          /\ call = Pending("transform_data", <<>>)
       \/ /\ mapping_config = NoConfig
          /\ \/ source_data \in PrimaryDicts \cup SatelliteOnlyDicts \cup {<<>>}
                /\ \E p \in PersonIds, r \in Rules :
                      call = Pending("_get_value_from_source",
                                     [person_id |-> p, config |-> r])
             \/ source_data \in CommDicts
                /\ \E p \in PersonIds, r \in CommRules \cup OtherRules :
                      call = Pending("_get_value_from_source",
                                     [person_id |-> p, config |-> r])
             \/ source_data \in AddressDicts
                /\ \E p \in PersonIds, r \in AddressRules :
                      call = Pending("_get_value_from_source",
                                     [person_id |-> p, config |-> r])
       \/ /\ mapping_config = NoConfig
          /\ source_data = (PA0002_Personal_Data :> PrimaryFixed) @@
                           (PA0105_Communication :> CommWithLogin)
          /\ \E v \in RawValues, f \in FieldNames, n \in NotesValues,
                i \in 1..Len(PrimaryFixed.rows) :
                call = Pending("_apply_transformations",
                               [value |-> v, field_name |-> f, notes |-> n,
                                person_row |-> PrimaryFixed.rows[i]])
       \/ /\ mapping_config = NoConfig
          /\ source_data = <<>>
          /\ \E v \in RawValues : call = Pending("_format_date", [date_value |-> v])

CallLoadMappingConfig ==
    /\ call.fn = "load_mapping_config" /\ ~call.done
    /\ LET r == load_mapping_config(call.args.mapping_df)
       IN  /\ mapping_config' = r.mapping_config
           /\ call' = [call EXCEPT !.done = TRUE, !.out = r.out]
    /\ UNCHANGED <<source_data, mapping_loaded, transformed_data, message>>

CallTransformData ==
    /\ call.fn = "transform_data" /\ ~call.done
    /\ call' = [call EXCEPT !.done = TRUE, !.out = transform_data]
    /\ UNCHANGED <<mapping_config, source_data, mapping_loaded, transformed_data, message>>

CallGetValueFromSource ==
    /\ call.fn = "_get_value_from_source" /\ ~call.done
    /\ call' = [call EXCEPT !.done = TRUE,
                            !.out = _get_value_from_source(call.args.person_id,
                                                           call.args.config)]
    /\ UNCHANGED <<mapping_config, source_data, mapping_loaded, transformed_data, message>>

CallApplyTransformations ==
    /\ call.fn = "_apply_transformations" /\ ~call.done
    /\ call' = [call EXCEPT !.done = TRUE,
                            !.out = _apply_transformations(call.args.value,
                                                           call.args.field_name,
                                                           call.args.notes,
                                                           call.args.person_row)]
    /\ UNCHANGED <<mapping_config, source_data, mapping_loaded, transformed_data, message>>

CallFormatDate ==
    /\ call.fn = "_format_date" /\ ~call.done
    /\ call' = [call EXCEPT !.done = TRUE,
                            !.out = Return(_format_date(call.args.date_value))]
    /\ UNCHANGED <<mapping_config, source_data, mapping_loaded, transformed_data, message>>

NextCall ==
    \/ CallLoadMappingConfig
    \/ CallTransformData
    \/ CallGetValueFromSource
    \/ CallApplyTransformations
    \/ CallFormatDate

SpecCall == InitCall /\ [][NextCall]_vars

----------------------------------------------------------------------------
(* What the claims speak of, stated without the code's own lookups *)

Done(fn) == call.fn = fn /\ call.done

\* the whole number a cell or an id denotes: its digits without leading
\* zeros and without a float's ".0"; other values denote themselves
Denoted(v) ==
    LET s == IF v.t = "float" /\ Len(v.s) > 2 THEN SubSeq(v.s, 1, Len(v.s) - 2) ELSE v.s
        nz == {i \in 1..Len(s) : s[i] # "0"}
    IN  IF ~IsDigit(s) THEN s
        ELSE IF nz = {} THEN <<"0">>
        ELSE SubSeq(s, CHOOSE i \in nz : \A j \in nz : i <= j, Len(s))

\* the rows of the entity in a table, in input order
EntityRows(df, person_id) ==
    SelectSeq(df.rows, LAMBDA r : ~IsNa(r[PERNR]) /\ Denoted(r[PERNR]) = Denoted(person_id))

\* the loaded table a rule of a supported source table reads
TableNameOf(source_table) ==
    CASE source_table = Text(PA0002) -> PA0002_Personal_Data
      [] source_table = Text(PA0105) -> PA0105_Communication
      [] source_table = Text(PA0006) -> PA0006_Home_Address
      [] OTHER -> <<>>

\* the rule's source table is supported, loaded and has an id column
TableLoaded(config) ==
    /\ TableNameOf(config.source_table) \in DOMAIN source_data
    /\ PERNR \in source_data[TableNameOf(config.source_table)].cols

TableOf(config) == source_data[TableNameOf(config.source_table)]

\* a cell that holds no value: null, NaN or empty text
IsBlank(v) == IsNa(v) \/ v = Empty

----------------------------------------------------------------------------
(* C1: transform_data emits exactly one record per distinct non-null value *)
(* of the primary table's id column, in first-seen order: duplicate ids    *)
(* collapse to one record and a null id produces no record.                *)

\* the distinct non-null ids of the primary table in first-seen order
DistinctIds(df) ==
    Unique(SelectSeq([i \in 1..Len(df.rows) |-> df.rows[i][PERNR]],
                     LAMBDA v : ~IsNa(v)))

\* the record of one entity: every compiled rule resolved for its id
RecordOf(id) ==
    LET items == mapping_config.items
    IN  [k \in {items[j].key : j \in 1..Len(items)} |->
            _get_value_from_source(Text(Str(id)),
                items[CHOOSE j \in 1..Len(items) : items[j].key = k].val).val]

C1_OneRecordPerDistinctId ==
    (Done("transform_data") /\ ~Raised(call.out)) =>
        LET ids == DistinctIds(source_data[PA0002_Personal_Data])
        IN  /\ Len(call.out.val.rows) = Len(ids)
            /\ \A i \in 1..Len(ids) : call.out.val.rows[i] = RecordOf(ids[i])

----------------------------------------------------------------------------
(* C2: after load_mapping_config each target field name occurs at most     *)
(* once in the compiled configuration, every row with a non-blank target   *)
(* is represented, and the rule kept for a target holds the source table,  *)
(* source column, notes and default of the last row naming that target.    *)

\* the rows of the mapping table that name target field k
RowsNaming(mapping_df, k) ==
    {i \in 1..Len(mapping_df.rows) : mapping_df.rows[i][col_target] = k}

C2_TargetsUniqueLastWins ==
    (Done("load_mapping_config") /\ ~Raised(call.out)) =>
        LET items == mapping_config.items
            df == call.args.mapping_df
        IN  /\ ~mapping_config.none
            /\ \A i, j \in 1..Len(items) : items[i].key = items[j].key => i = j
            /\ \A i \in 1..Len(df.rows) :
                  (~IsNa(df.rows[i][col_target]) /\ Strip(df.rows[i][col_target].s) # <<>>)
                      => \E j \in 1..Len(items) : items[j].key = df.rows[i][col_target]
            /\ \A j \in 1..Len(items) :
                  /\ RowsNaming(df, items[j].key) # {}
                  /\ LET last == CHOOSE i \in RowsNaming(df, items[j].key) :
                                    \A h \in RowsNaming(df, items[j].key) : h <= i
                     IN  /\ items[j].val.source_table = df.rows[last][col_source_table]
                         /\ items[j].val.technical_field = df.rows[last][col_technical_field]
                         /\ items[j].val.notes = df.rows[last][col_notes]
                         /\ items[j].val.default_value = df.rows[last][col_default_value]

\* a table whose last two rows name one target with different sources was compiled
C2_Witness ==
    /\ Done("load_mapping_config") /\ ~Raised(call.out)
    /\ LET df == call.args.mapping_df
       IN  /\ Len(df.rows) >= 2
           /\ df.rows[Len(df.rows) - 1][col_target] = df.rows[Len(df.rows)][col_target]
           /\ df.rows[Len(df.rows) - 1][col_source_table] # df.rows[Len(df.rows)][col_source_table]
           /\ Len(mapping_config.items) = 1

----------------------------------------------------------------------------
(* C3: for a rule of a supported source table that is loaded, an entity    *)
(* with no row in that table resolves to exactly the rule's default value. *)

C3_MissingRowGivesDefault ==
    (/\ Done("_get_value_from_source")
     /\ TableLoaded(call.args.config)
     /\ EntityRows(TableOf(call.args.config), call.args.person_id) = <<>>)
        => call.out = Return(call.args.config.default_value)

\* entity 1003 is absent from a non-empty PA0105 and the rule's default "" came back
C3_Witness ==
    /\ Done("_get_value_from_source")
    /\ call.args.config.source_table = Text(PA0105)
    /\ call.args.config.notes = Text(kw_SUBTY_0010)
    /\ call.args.config.default_value = Empty
    /\ call.args.person_id = Text(id_1003)
    /\ TableLoaded(call.args.config)
    /\ TableOf(call.args.config).rows # <<>>
    /\ call.out = Return(Empty)

----------------------------------------------------------------------------
(* Subtype selection as the claims state it *)

NoSubtype == <<>>

\* the digits of s from position j on
DigitsFrom(s, j) ==
    LET stop == {k \in j..Len(s) : s[k] \notin Digits}
        end == IF stop = {} THEN Len(s) ELSE (CHOOSE k \in stop : \A h \in stop : k <= h) - 1
    IN  SubSeq(s, j, end)

\* the digits that follow the first SUBTY (any case, one optional separator)
\* which has digits after it, or <<>>
SubtypeDigits(s) ==
    LET u == Upper(s)
        digitsAt(i) == IF i + 5 <= Len(s) /\ s[i + 5] \in Digits THEN DigitsFrom(s, i + 5)
                       ELSE IF i + 6 <= Len(s) /\ s[i + 6] \in Digits THEN DigitsFrom(s, i + 6)
                       ELSE <<>>
        hits == {i \in 1..(Len(s) - 4) : SubSeq(u, i, i + 4) = SUBTY /\ digitsAt(i) # <<>>}
    IN  IF hits = {} THEN <<>>
        ELSE digitsAt(CHOOSE i \in hits : \A h \in hits : i <= h)

\* the subtype a rule requests: its SUBTY digits without leading zeros, else
\* 10 for the EMAIL keyword and 20 for the PHONE keyword, else none
RequestedSubtype(notes) ==
    IF notes.t # "str" THEN NoSubtype
    ELSE IF SubtypeDigits(notes.s) # <<>> THEN Denoted(Text(SubtypeDigits(notes.s)))
    ELSE IF Contains(EMAIL, Upper(notes.s)) THEN <<"1","0">>
    ELSE IF Contains(PHONE, Upper(notes.s)) THEN <<"2","0">>
    ELSE NoSubtype

\* the rows of the entity whose subtype code denotes the requested subtype
SubtypeRows(df, person_id, subtype) ==
    SelectSeq(EntityRows(df, person_id),
              LAMBDA r : ~IsNa(r[SUBTY]) /\ Denoted(r[SUBTY]) = subtype)

\* the rule reads a loaded satellite table that has a subtype column
SatelliteLoaded(config) ==
    /\ config.source_table \in {Text(PA0105), Text(PA0006)}
    /\ TableLoaded(config)
    /\ SUBTY \in TableOf(config).cols

\* the rows a rule selects for an entity: those of the requested subtype, or
\* all rows of the entity when no subtype is requested or the table has none
SelectedRows(config, person_id) ==
    IF SatelliteLoaded(config) /\ RequestedSubtype(config.notes) # NoSubtype
    THEN SubtypeRows(TableOf(config), person_id, RequestedSubtype(config.notes))
    ELSE EntityRows(TableOf(config), person_id)

\* the rule's source cell in a row
SourceCell(row, config) ==
    SeriesGetValue(row, config.technical_field, config.default_value)

\* the value resolved from a row: its source cell, null when the cell is blank
ResolvedFrom(row, config, out) ==
    /\ ~Raised(out)
    /\ IF IsBlank(SourceCell(row, config)) THEN IsNa(out.val)
       ELSE out.val = SourceCell(row, config)

----------------------------------------------------------------------------
(* C4: whenever the matching row exists but its source cell is null, NaN   *)
(* or empty, the resolved value is None whatever the rule's default, for   *)
(* PA0002, PA0105 and PA0006 alike. Stated for the calls that did not fall *)
(* back to the default (falling back wrongly is the subject of C5 and C6). *)

\* the rule's source column is a column of its table
SourceColumnPresent(config) ==
    /\ config.technical_field.t = "str"
    /\ config.technical_field.s \in TableOf(config).cols

\* the table stores the entity's id in the form the resolver compares
\* (matching across forms is C15's subject)
IdsComparable(config, person_id) ==
    EntityRows(TableOf(config), person_id) = RowsOfPerson(TableOf(config), person_id)

C4_BlankCellGivesNone ==
    (/\ Done("_get_value_from_source") /\ ~Raised(call.out)
     /\ TableLoaded(call.args.config)
     /\ SourceColumnPresent(call.args.config)
     /\ IdsComparable(call.args.config, call.args.person_id)
     /\ call.out.val # call.args.config.default_value
     /\ SelectedRows(call.args.config, call.args.person_id) # <<>>
     /\ IsBlank(SourceCell(SelectedRows(call.args.config, call.args.person_id)[1],
                           call.args.config)))
        => IsNa(call.out.val)

----------------------------------------------------------------------------
(* C5: when a rule requests a subtype, the row used for the entity is the  *)
(* first row in input order whose subtype code equals the requested one; a *)
(* row of another subtype is never used.                                   *)

C5_RequestedSubtypeRowUsed ==
    (/\ Done("_get_value_from_source") /\ ~Raised(call.out)
     /\ SatelliteLoaded(call.args.config)
     /\ RequestedSubtype(call.args.config.notes) # NoSubtype)
        => LET rows == SelectedRows(call.args.config, call.args.person_id)
           IN  IF rows # <<>> THEN ResolvedFrom(rows[1], call.args.config, call.out)
               ELSE call.out.val = call.args.config.default_value \/ IsNa(call.out.val)

----------------------------------------------------------------------------
(* C6: when a rule requests no subtype and the source table has a subtype  *)
(* column, the first row of the entity in input order is used, whatever    *)
(* its subtype, rather than the default.                                   *)

C6_NoSubtypeFirstRowUsed ==
    (/\ Done("_get_value_from_source") /\ ~Raised(call.out)
     /\ SatelliteLoaded(call.args.config)
     /\ call.args.config.notes.t = "str"
     /\ RequestedSubtype(call.args.config.notes) = NoSubtype
     /\ EntityRows(TableOf(call.args.config), call.args.person_id) # <<>>)
        => ResolvedFrom(EntityRows(TableOf(call.args.config), call.args.person_id)[1],
                        call.args.config, call.out)

----------------------------------------------------------------------------
(* C7: a rule whose source table matches no loaded table resolves, without *)
(* raising, to its default when one is given and to None otherwise, the    *)
(* same whether the resolver knows the table name or not; a name that      *)
(* contains or is contained in a loaded table's name (any case) matches.   *)

\* the loaded tables whose name contains, or is contained in, the rule's source table
MatchingTables(config) ==
    IF config.source_table.t # "str" \/ config.source_table.s = <<>> THEN {}
    ELSE {name \in DOMAIN source_data :
             \/ Contains(Lower(config.source_table.s), Lower(name))
             \/ Contains(Lower(name), Lower(config.source_table.s))}

\* the source table tag the resolver reads a loaded table under
TagOf(name) ==
    CASE name = PA0002_Personal_Data -> Text(PA0002)
      [] name = PA0105_Communication -> Text(PA0105)
      [] name = PA0006_Home_Address -> Text(PA0006)

C7_UnmatchedTableGivesDefault ==
    Done("_get_value_from_source") =>
        LET config == call.args.config
            found == MatchingTables(config)
        IN  IF found = {}
            THEN /\ ~Raised(call.out)
                 /\ IF IsBlank(config.default_value) THEN IsNa(call.out.val)
                    ELSE call.out.val = config.default_value
            ELSE \E name \in found :
                    call.out = _get_value_from_source(call.args.person_id,
                                   [config EXCEPT !.source_table = TagOf(name)])

----------------------------------------------------------------------------
(* C8: a configuration-level error is fatal and emits nothing. When the    *)
(* mapping configuration is empty, or the primary table is not loaded or   *)
(* lacks its id column, transform_data raises an error that names a        *)
(* missing element, and the "Start Transformation" handler reports it and  *)
(* leaves the stored transformed result as it was.                         *)

\* the structural elements a pass needs and the mapper lacks
MissingElements ==
    (IF mapping_config.none \/ mapping_config.items = <<>>
     THEN {"mapping configuration"} ELSE {}) \cup
    (IF DOMAIN source_data = {} THEN {"source data"} ELSE {}) \cup
    (IF PA0002_Personal_Data \notin DOMAIN source_data THEN {"primary table"} ELSE {}) \cup
    (IF /\ PA0002_Personal_Data \in DOMAIN source_data
        /\ PERNR \notin source_data[PA0002_Personal_Data].cols
     THEN {"id column"} ELSE {})

\* the elements an error's text names
NamedBy(out) ==
    CASE out.exc = "ValueError" /\ out.arg = msg_not_loaded
            -> {"mapping configuration", "source data"}
      [] out.exc = "ValueError" /\ out.arg = msg_no_primary -> {"primary table"}
      [] out.exc = "KeyError" /\ out.arg = "PERNR" -> {"id column"}
      [] OTHER -> {}

C8_ConfigErrorIsFatal ==
    [][/\ MissingElements # {} =>
             /\ Raised(transform_data)
             /\ NamedBy(transform_data) \cap MissingElements # {}
       /\ (StartTransformation /\ MissingElements # {}) =>
             /\ message' = Error("Transformation failed", transform_data)
             /\ transformed_data' = transformed_data]_vars

\* a pass failed on a primary table without id column after an earlier pass
\* had stored records, and the records are still stored
C8_Witness ==
    /\ message = Error("Transformation failed", Raise("KeyError", "PERNR"))
    /\ MissingElements = {"id column"}
    /\ ~transformed_data.none
    /\ transformed_data.rows # <<>>

----------------------------------------------------------------------------
(* C9: the categorical lookup upper-cases the raw value's string form      *)
(* before looking it up (gender "1", "M", "m" give "Male"; "2", "F", "f"   *)
(* give "Female"), and a value that is no key of the map comes back        *)
(* unchanged ("Male" stays "Male").                                        *)

\* the lookup of the claim: the upper-cased string form is the key
LookupUpper(map, value) == DictGet(map, Upper(Str(value)), value)

C9_LookupUpperCases ==
    (/\ Done("_apply_transformations")
     /\ ~IsBlank(call.args.value)
     /\ call.args.field_name.t = "str")
        => /\ Contains(GESCH, call.args.field_name.s)
                 => call.out = Return(LookupUpper(gender_map, call.args.value))
           /\ (call.args.field_name = Text(FAMST) /\ call.args.notes \in {Empty, Text(kw_marital)})
                 => call.out = Return(LookupUpper(marital_map, call.args.value))

----------------------------------------------------------------------------
(* C10: the date8 transform.                                               *)
(* As claimed: an 8-character all-digit string d becomes                   *)
(* d[0:4]-d[4:6]-d[6:8], every other raw value is returned unchanged, and  *)
(* the transform is idempotent.                                            *)
(* As the code has it: the string form str(v) of a non-null raw value v is *)
(* what is tested and returned, so a number is returned as text and a      *)
(* number of 8 digits is formatted like a string; null gives None.         *)

\* d[0:4]-d[4:6]-d[6:8]
Dashed(d) == <<d[1], d[2], d[3], d[4], "-", d[5], d[6], "-", d[7], d[8]>>

\* date8 applied to the string form of a value
Date8(v) ==
    IF Len(Str(v)) = 8 /\ IsDigit(Str(v)) THEN Text(Dashed(Str(v))) ELSE Text(Str(v))

\* the calls that apply date8: _format_date itself, and _apply_transformations
\* on the date column GBDAT with text notes and a value that is not blank
Date8Applied ==
    \/ Done("_format_date") /\ ~IsNa(call.args.date_value)
    \/ /\ Done("_apply_transformations")
       /\ call.args.field_name = Text(GBDAT)
       /\ call.args.notes.t = "str"
       /\ ~IsBlank(call.args.value)

Date8Input == IF call.fn = "_format_date" THEN call.args.date_value ELSE call.args.value

C10_Date8OnStringForm ==
    /\ Date8Applied =>
          /\ call.out = Return(Date8(Date8Input))
          /\ _format_date(call.out.val) = call.out.val
    /\ (Done("_format_date") /\ IsNa(call.args.date_value)) => call.out = Return(None)

C10_Date8AsClaimed ==
    Date8Applied =>
        /\ call.out = Return(IF /\ Date8Input.t = "str"
                                /\ Len(Date8Input.s) = 8
                                /\ IsDigit(Date8Input.s)
                             THEN Text(Dashed(Date8Input.s))
                             ELSE Date8Input)
        /\ _format_date(call.out.val) = call.out.val

\* the whole number 19850613 was formatted as the date 1985-06-13
C10_Witness ==
    /\ Done("_format_date")
    /\ call.args.date_value = Num(<<"1","9","8","5","0","6","1","3">>)
    /\ call.out = Return(Text(<<"1","9","8","5","-","0","6","-","1","3">>))

----------------------------------------------------------------------------
(* C11: the concat transform reads VORNA and NACHN from the entity's       *)
(* primary row, treats a missing or null field as the empty string, joins  *)
(* them with one space and strips the result ("Jane Doe"; VORNA missing    *)
(* gives "Doe"); it yields None when every constituent field is absent.    *)
(* Stated for the calls where concat is the only transform the rule names  *)
(* and the rule's own raw value is not blank (C13 and C14 cover the rest). *)

\* a constituent field of the primary row, the empty string when missing or null
ConcatField(person_row, key) ==
    IF key \notin DOMAIN person_row \/ IsBlank(person_row[key]) THEN <<>>
    ELSE Str(person_row[key])

\* the concatenation the claim describes
ConcatOf(person_row) ==
    IF ConcatField(person_row, VORNA) = <<>> /\ ConcatField(person_row, NACHN) = <<>>
    THEN None
    ELSE Text(Strip(ConcatField(person_row, VORNA) \o <<" ">> \o ConcatField(person_row, NACHN)))

\* a call of _apply_transformations whose rule names concat and nothing else
ConcatOnly ==
    /\ Done("_apply_transformations")
    /\ call.args.field_name = Text(VORNA)
    /\ call.args.notes = Text(kw_concatenate)

C11_ConcatJoinsPrimaryFields ==
    (ConcatOnly /\ ~IsBlank(call.args.value))
        => call.out = Return(ConcatOf(call.args.person_row))

----------------------------------------------------------------------------
(* C12: no per-value transformation step raises. For every raw value and   *)
(* every rule, a rule whose notes, default or technical field cell is null *)
(* or non-text included, resolving and transforming the value completes.   *)
(* Stated for loaded tables that have every column the resolvers read, so  *)
(* that a raise can only come from the rule or the value.                  *)

\* every loaded table has its id column, and the satellites their subtype
\* and communication type columns
TablesWellFormed ==
    \A name \in DOMAIN source_data :
        /\ PERNR \in source_data[name].cols
        /\ name = PA0105_Communication => {COMM_TYPE, SUBTY} \subseteq source_data[name].cols
        /\ name = PA0006_Home_Address => SUBTY \in source_data[name].cols

C12_TransformNeverRaises ==
    ((Done("_get_value_from_source") \/ Done("_apply_transformations")) /\ TablesWellFormed)
        => ~Raised(call.out)

----------------------------------------------------------------------------
(* C13: a null or empty raw value short-circuits to None before any        *)
(* transform for the date8, lookup and pass-through rules, but a concat    *)
(* rule is still evaluated from the sibling fields of the primary row when *)
(* the rule's own raw value is null or empty.                              *)

\* the rule's notes name the concatenation
NamesConcat(notes) == notes.t = "str" /\ Contains(kw_concatenate, notes.s)

C13_BlankShortCircuitsExceptConcat ==
    (Done("_apply_transformations") /\ IsBlank(call.args.value))
        => /\ ~NamesConcat(call.args.notes) => call.out = Return(None)
           /\ ConcatOnly => call.out = Return(ConcatOf(call.args.person_row))

----------------------------------------------------------------------------
(* C14: for every rule exactly one transform is selected and applied, in   *)
(* the priority order date pattern, then concatenation pattern, then       *)
(* categorical keyword, then pass-through: a rule matching the date        *)
(* pattern and a categorical keyword (or whose field is a gender field) is *)
(* handled as a date, and one matching concatenation and a categorical     *)
(* keyword as a concatenation. Each pattern is recognised as the code      *)
(* recognises it; only the order is the claim's. Stated for raw values     *)
(* and primary rows on which each single transform behaves as claimed      *)
(* (C9, C11 and C13 cover the others).                                     *)

NamesDate(field_name, notes) ==
    \/ Contains(kw_date, Lower(notes.s))
    \/ Contains(GBDAT, field_name.s)
    \/ Contains(BEGDA, field_name.s)

NamesGender(field_name, notes) ==
    \/ Contains(kw_gender, Lower(notes.s))
    \/ Contains(kw_gender, Lower(field_name.s))
    \/ Contains(GESCH, field_name.s)

NamesMarital(field_name, notes) ==
    Contains(kw_marital, Lower(notes.s)) \/ Contains(FAMST, field_name.s)

\* the one transform of the claim's priority order, applied
SelectedTransform(value, field_name, notes, person_row) ==
    IF NamesDate(field_name, notes) THEN Date8(value)
    ELSE IF NamesConcat(notes) THEN ConcatOf(person_row)
    ELSE IF NamesGender(field_name, notes) THEN LookupUpper(gender_map, value)
    ELSE IF NamesMarital(field_name, notes) THEN LookupUpper(marital_map, value)
    ELSE value

C14_OneTransformByPriority ==
    (/\ Done("_apply_transformations")
     /\ ~IsBlank(call.args.value)
     /\ call.args.field_name.t = "str" /\ call.args.notes.t = "str"
     /\ ~Contains(kw_login_username, Lower(call.args.notes.s))
     /\ Upper(Str(call.args.value)) = Str(call.args.value)
     /\ ConcatField(call.args.person_row, VORNA) # <<>>
     /\ ConcatField(call.args.person_row, NACHN) # <<>>)
        => call.out = Return(SelectedTransform(call.args.value, call.args.field_name,
                                               call.args.notes, call.args.person_row))

----------------------------------------------------------------------------
(* C15: entity ids and subtype codes are normalized to one canonical form  *)
(* on both sides before comparison: a row matches whenever its id and its  *)
(* subtype denote the same value as those requested, whether the table     *)
(* stores them as text or as numbers (id 1001 matches "1001"; subtype      *)
(* "0010" or "10" matches 10). Stated for the subtypes the resolvers       *)
(* select on: 10 and 20 in PA0105, 1 in PA0006.                            *)

\* the resolver's own subtype comparison accepts the row
SubtypeCompared(config, row) ==
    CASE config.source_table = Text(PA0105) /\ RequestedSubtype(config.notes) = <<"1","0">>
            -> CommRows(<<row>>, EMAIL, <<"1","0">>) # <<>>
      [] config.source_table = Text(PA0105) /\ RequestedSubtype(config.notes) = <<"2","0">>
            -> CommRows(<<row>>, PHONE, <<"2","0">>) # <<>>
      [] config.source_table = Text(PA0006) /\ RequestedSubtype(config.notes) = <<"1">>
            -> EqNumber(row[SUBTY], <<"1">>)
      [] OTHER -> TRUE

C15_IdsAndSubtypesNormalized ==
    (/\ Done("_get_value_from_source")
     /\ TableLoaded(call.args.config)
     /\ TablesWellFormed)
        => /\ IdsComparable(call.args.config, call.args.person_id)
           /\ SatelliteLoaded(call.args.config) =>
                 LET rows == SubtypeRows(TableOf(call.args.config), call.args.person_id,
                                         RequestedSubtype(call.args.config.notes))
                 IN  \A i \in 1..Len(rows) : SubtypeCompared(call.args.config, rows[i])

=============================================================================
